---------------------------- MODULE Spec2Model ----------------------------
(***************************************************************************)
(* A model of world-icons-bot (src/bot.py): the CardRepository, the        *)
(* lootrate and cardinfo command handlers that share it, the chunking of   *)
(* the lootrate report, and the two handlers that call an external API     *)
(* (sui, verify).                                                          *)
(*                                                                         *)
(* Strings that the code inspects character by character (keys, names,     *)
(* queries, collection names) are sequences of one-character strings.      *)
(* Tier labels, which the code only compares and prints, are strings.      *)
(***************************************************************************)
EXTENDS Integers, Sequences, FiniteSets, TLC

VARIABLES
    cardsFile,   \* content of data/cards.json on disk
    tiersFile,   \* content of data/tiers.json on disk
    cards,       \* repo._cards
    tiers,       \* repo._tiers
    cardsBy,     \* history: the invocation whose reload() assigned repo._cards (0: the constructor)
    tiersBy,     \* history: the invocation whose reload() assigned repo._tiers (0: the constructor)
    pc,          \* pc[h]: where handler invocation h stands
    kind,        \* kind[h]: "lootrate" or "cardinfo"
    query,       \* query[h]: the nom_carte argument of a cardinfo invocation
    running,     \* the invocation the event loop is executing, 0 when it is free
    prior,       \* history: prior[h] = <<_cards, _tiers>> when h called reload()
    sawCards,    \* history: sawCards[h] = the writers of the _cards values h read after its reload()
    sawTiers,    \* history: sawTiers[h] = the writers of the _tiers values h read after its reload()
    local,       \* local[h]: the handler's local variables (total, card)
    reply,       \* reply[h]: the message the handler passes to send_message
    all_lines,   \* lootrate chunking: the lines to display
    field_chunks,\* lootrate chunking: the chunks built
    fields,      \* lootrate chunking: the length of each embed field's value
    cpc,         \* lootrate chunking: position in lines 222..239
    api          \* the sui and verify invocation under study

repoVars == <<cardsFile, tiersFile, cards, tiers, cardsBy, tiersBy, pc, kind,
              query, running, prior, sawCards, sawTiers, local, reply>>
chunkVars == <<all_lines, field_chunks, fields, cpc>>
vars == <<repoVars, chunkVars, api>>

---------------------------------------------------------------------------
(* Bounds of the model. *)

MaxCards == 2
MaxTiers == 2
MaxWeight == 2
NumHandlers == 2
MaxLines == 3
MaxItems == 2

---------------------------------------------------------------------------
(* Sequence helpers. *)

Range(s) == {s[i] : i \in 1..Len(s)}

RECURSIVE SumSeq(_)
SumSeq(s) == IF s = <<>> THEN 0 ELSE s[1] + SumSeq(Tail(s))

Max0(w) == IF w > 0 THEN w ELSE 0

SeqsUpTo(S, n) == UNION {[1..k -> S] : k \in 0..n}

\* The distinct elements of s, in order of first occurrence (a dict's key order).
RECURSIVE Dedup(_)
Dedup(s) ==
    IF s = <<>> THEN <<>>
    ELSE LET d == Dedup(SubSeq(s, 1, Len(s) - 1))
             x == s[Len(s)]
         IN IF x \in Range(d) THEN d ELSE Append(d, x)

---------------------------------------------------------------------------
(* normalize: strip, lower, collapse whitespace runs. *)

IsSpace(c) == c \in {" ", "\t"}

Lower(c) == CASE c = "A" -> "a" [] c = "B" -> "b" [] OTHER -> c

RECURSIVE LStrip(_)
LStrip(s) == IF s # <<>> /\ IsSpace(s[1]) THEN LStrip(Tail(s)) ELSE s

RECURSIVE RStrip(_)
RStrip(s) ==
    IF s # <<>> /\ IsSpace(s[Len(s)]) THEN RStrip(SubSeq(s, 1, Len(s) - 1)) ELSE s

Strip(s) == RStrip(LStrip(s))

\* re.sub(r"\s+", " ", s): every maximal run of whitespace becomes one space.
RECURSIVE Collapse(_)
Collapse(s) ==
    IF s = <<>> THEN <<>>
    ELSE IF IsSpace(s[1])
         THEN <<" ">> \o Collapse(LStrip(s))
         ELSE <<s[1]>> \o Collapse(Tail(s))

normalize(s) == Collapse([i \in 1..Len(Strip(s)) |-> Lower(Strip(s)[i])])

\* Python's `q in s` on strings.
IsSubstring(q, s) ==
    \E i \in 0..(Len(s) - Len(q)) : SubSeq(s, i + 1, i + Len(q)) = q

---------------------------------------------------------------------------
(* Raw JSON values and the records built from them. *)

Absent == [t |-> "absent", s |-> <<>>, n |-> 0]
JStr(s) == [t |-> "str", s |-> s, n |-> 0]
JInt(n) == [t |-> "int", s |-> <<>>, n |-> n]
JBad == [t |-> "bad", s |-> <<>>, n |-> 0]   \* a value int() rejects

\* str(d.get(field, ""))
StrOr(v) == IF v.t = "absent" THEN <<>> ELSE v.s
\* int(d.get(field, 0))
IntOr(v) == IF v.t = "int" THEN v.n ELSE 0

CardFromDict(d) ==
    [key |-> StrOr(d.key), name |-> StrOr(d.name), weight |-> IntOr(d.weight)]
CardFromDictRaises(d) == d.weight.t = "bad"

\* A tier's name is kept as a label: d.name is "" when absent.
TierFromDict(d) == [name |-> d.name, min_weight |-> IntOr(d.min_weight)]
TierFromDictRaises(d) == d.min_weight.t = "bad"

---------------------------------------------------------------------------
(* CardRepository. *)

\* sorted({...}, reverse=True) of a set of integers.
RECURSIVE SortedSetDesc(_)
SortedSetDesc(S) ==
    IF S = {} THEN <<>>
    ELSE LET m == CHOOSE x \in S : \A y \in S : y <= x
         IN <<m>> \o SortedSetDesc(S \ {m})

tiers_from_cards(cs) ==
    LET weights == SortedSetDesc({cs[i].weight : i \in {j \in 1..Len(cs) : cs[j].weight > 0}})
    IN [i \in 1..Len(weights) |->
          [name |-> "Poids >= " \o ToString(weights[i]), min_weight |-> weights[i]]]

\* A sort that is not stable: t goes before the elements of equal min_weight
\* (what sorted(tiers, key=...)[::-1] would do).
InsertDescUnstable(s, t) ==
    LET k == Cardinality({i \in 1..Len(s) : s[i].min_weight > t.min_weight})
    IN SubSeq(s, 1, k) \o <<t>> \o SubSeq(s, k + 1, Len(s))

\* One step of the stable descending sort: t goes after every element whose
\* min_weight is >= its own.
InsertDesc(s, t) ==
    LET k == Cardinality({i \in 1..Len(s) : s[i].min_weight >= t.min_weight})
    IN SubSeq(s, 1, k) \o <<t>> \o SubSeq(s, k + 1, Len(s))

\* sorted(tiers, key=lambda t: t.min_weight, reverse=True)
RECURSIVE SortTiersDesc(_)
SortTiersDesc(ts) ==
    IF ts = <<>> THEN <<>>
    ELSE InsertDesc(SortTiersDesc(SubSeq(ts, 1, Len(ts) - 1)), ts[Len(ts)])

\* The tiers left in file order.
SortTiersNone(ts) == ts

SortTiers(ts) == SortTiersDesc(ts)

\* reload(), lines 78-79: the cards file is read and _cards assigned.
LoadCards(cf) ==
    IF cf.st # "list" \/ \E i \in 1..Len(cf.doc) : CardFromDictRaises(cf.doc[i])
    THEN [ok |-> FALSE, cards |-> <<>>]
    ELSE [ok |-> TRUE, cards |-> [i \in 1..Len(cf.doc) |-> CardFromDict(cf.doc[i])]]

\* reload(), lines 80-88, with _cards already assigned to cs.
LoadTiers(tf, cs) ==
    IF tf.st = "malformed" \/ (tf.st = "list" /\ \E i \in 1..Len(tf.doc) : TierFromDictRaises(tf.doc[i]))
    THEN [ok |-> FALSE, tiers |-> <<>>]
    ELSE LET fromFile == IF tf.st = "list"
                         THEN [i \in 1..Len(tf.doc) |-> TierFromDict(tf.doc[i])]
                         ELSE <<>>
             ts == IF fromFile = <<>> THEN tiers_from_cards(cs) ELSE fromFile
         IN [ok |-> TRUE, tiers |-> SortTiers(ts)]

total_weight(cs) == SumSeq([i \in 1..Len(cs) |-> Max0(cs[i].weight)])

\* probability(card) as the fraction <<numerator, denominator>>; 0.0 is <<0, 1>>.
probability(cs, card) ==
    LET total == total_weight(cs)
    IN IF total > 0 THEN <<card.weight, total>> ELSE <<0, 1>>

\* The position in ts of the tier tier_for_card returns, 0 when it returns "Inconnu".
TierIndex(ts, w) ==
    LET hits == {i \in 1..Len(ts) : w >= ts[i].min_weight}
    IN IF hits = {} THEN 0 ELSE CHOOSE i \in hits : \A j \in hits : i <= j

tier_for_card(ts, card) ==
    LET i == TierIndex(ts, card.weight)
    IN IF i = 0 THEN "Inconnu" ELSE ts[i].name

\* The weight added without the clamp.
SummaryWeightRaw(w) == w

\* line 124: max(0, c.weight)
SummaryWeight(w) == Max0(w)

\* summary_by_tier(): the ordered dict as a sequence of entries.
summary_by_tier(cs, ts) ==
    LET total == total_weight(cs)
        label(i) == tier_for_card(ts, cs[i])
        seen == Dedup([i \in 1..Len(cs) |-> label(i)])
        wsum(l) == SumSeq([i \in 1..Len(cs) |->
                             IF label(i) = l THEN SummaryWeight(cs[i].weight) ELSE 0])
        pct(l) == IF total > 0 THEN <<wsum(l) * 100, total>> ELSE <<0, 1>>
        canon == Dedup(SelectSeq([i \in 1..Len(ts) |-> ts[i].name],
                                 LAMBDA n : n \in Range(seen)))
        extra == SelectSeq(seen, LAMBDA n : n \notin Range(canon))
        order == canon \o extra
    IN [i \in 1..Len(order) |->
          [tier |-> order[i], wsum |-> wsum(order[i]), pct |-> pct(order[i])]]

FirstIndex(S) == IF S = {} THEN 0 ELSE CHOOSE i \in S : \A j \in S : i <= j

\* A lookup that tries the exact name before the key.
find_card_name_first(cs, qs) ==
    LET q == normalize(qs)
        byKey == {i \in 1..Len(cs) : normalize(cs[i].key) = q}
        byName == {i \in 1..Len(cs) : normalize(cs[i].name) = q}
        bySub == {i \in 1..Len(cs) : IsSubstring(q, normalize(cs[i].name))}
    IN IF q = <<>> THEN 0
       ELSE IF byName # {} THEN FirstIndex(byName)
       ELSE IF byKey # {} THEN FirstIndex(byKey)
       ELSE FirstIndex(bySub)

\* find_card(query): the position of the card returned, 0 for None.
find_card(cs, qs) ==
    LET q == normalize(qs)
        byKey == {i \in 1..Len(cs) : normalize(cs[i].key) = q}
        byName == {i \in 1..Len(cs) : normalize(cs[i].name) = q}
        bySub == {i \in 1..Len(cs) : IsSubstring(q, normalize(cs[i].name))}
    IN IF q = <<>> THEN 0
       ELSE IF byKey # {} THEN FirstIndex(byKey)
       ELSE IF byName # {} THEN FirstIndex(byName)
       ELSE FirstIndex(bySub)

---------------------------------------------------------------------------
(* lootrate: the report's lines and their greedy chunking (lines 216-239). *)

FieldLimit == 1024

RECURSIVE Digits(_)
Digits(n) == IF n < 10 THEN 1 ELSE 1 + Digits(n \div 10)

Abs(n) == IF n < 0 THEN 0 - n ELSE n

\* len(f"{p:.3f}") for p = w / total * 100: integer digits, ".ddd", and a sign.
\* (Rounding is to the nearest thousandth; which way a tie goes cannot change
\* the length in the ranges used here.)
PctLen(w, total) ==
    LET thousandths == (2 * Abs(w) * 100000 + total) \div (2 * total)
    IN Digits(thousandths \div 1000) + 4 + (IF w < 0 THEN 1 ELSE 0)

\* len(f"**{c.name}** : {p:.3f}%")
LineLen(card, total) == 2 + Len(card.name) + 5 + PctLen(card.weight, total) + 1

\* Lines 225-233 over a list of lines (each [id, len]): the loop's variables
\* after the last line.
RECURSIVE ChunkLoop(_)
ChunkLoop(lines) ==
    IF lines = <<>>
    THEN [field_chunks |-> <<>>, current |-> <<>>, current_len |-> 0]
    ELSE LET st == ChunkLoop(SubSeq(lines, 1, Len(lines) - 1))
             line == lines[Len(lines)]
             line_len == line.len + 1
         IN IF st.current # <<>> /\ st.current_len + line_len > FieldLimit
            THEN [field_chunks |-> Append(st.field_chunks, st.current),
                  current |-> <<line>>,
                  current_len |-> line_len]
            ELSE [field_chunks |-> st.field_chunks,
                  current |-> Append(st.current, line),
                  current_len |-> st.current_len + line_len]

\* Lines 222-235: field_chunks after the final flush.
BuildChunks(lines) ==
    LET st == ChunkLoop(lines)
    IN IF st.current # <<>> THEN Append(st.field_chunks, st.current) ELSE st.field_chunks

\* len("\n".join(chunk))
JoinedLen(chunk) ==
    SumSeq([i \in 1..Len(chunk) |-> chunk[i].len]) + (IF chunk = <<>> THEN 0 ELSE Len(chunk) - 1)

---------------------------------------------------------------------------
(* The lootrate and cardinfo handlers on the event loop. *)

Handlers == 1..NumHandlers

\* The await points if reload() and the repository reads were awaited too
\* (file loading handed to the loop, as with an async loader).
AwaitPointsAsyncReload ==
    {"await_error", "await_zero", "await_miss", "await_reply",
     "reload_tiers", "total", "find", "lines", "detail"}

\* The places where a handler is suspended in `await send_message(...)`:
\* the only places where the event loop may run another handler.
AwaitPoints == {"await_error", "await_zero", "await_miss", "await_reply"}

\* h may take its next step: it holds the loop, or the loop is free and h is
\* waiting to be dispatched or to be resumed.
CanRun(h) ==
    \/ running = h
    \/ running = 0 /\ pc[h] \in AwaitPoints \cup {"idle"}

\* After a step that leaves h at p, the loop is free iff h is suspended.
Yield(h, p) == IF p \in AwaitPoints \cup {"done"} THEN 0 ELSE h

NoCard == [key |-> <<>>, name |-> <<>>, weight |-> 0]
NoLocal == [total |-> 0, idx |-> 0, card |-> NoCard]
NoReply == [type |-> "none", text |-> "", probs |-> <<>>, chunks |-> <<>>,
            card |-> 0, tier |-> ""]
Ephemeral(text) == [NoReply EXCEPT !.type = "ephemeral", !.text = text]

Step(h, p) ==
    /\ pc' = [pc EXCEPT ![h] = p]
    /\ running' = Yield(h, p)

\* The dispatcher starts the handler; its first statement calls repo.reload().
Dispatch(h) ==
    /\ pc[h] = "idle" /\ CanRun(h)
    /\ Step(h, "reload_cards")
    /\ prior' = [prior EXCEPT ![h] = <<cards, tiers>>]
    /\ UNCHANGED <<cardsFile, tiersFile, cards, tiers, cardsBy, tiersBy, kind,
                   query, sawCards, sawTiers, local, reply>>
    /\ UNCHANGED <<chunkVars, api>>

\* reload(), lines 78-79.
ReloadCards(h) ==
    /\ pc[h] = "reload_cards" /\ CanRun(h)
    /\ LET r == LoadCards(cardsFile)
       IN IF r.ok
          THEN /\ cards' = r.cards
               /\ cardsBy' = h
               /\ Step(h, "reload_tiers")
               /\ reply' = reply
          ELSE /\ UNCHANGED <<cards, cardsBy>>
               /\ Step(h, "await_error")
               /\ reply' = [reply EXCEPT ![h] = Ephemeral("Erreur donnees")]
    /\ UNCHANGED <<cardsFile, tiersFile, tiers, tiersBy, kind, query, prior,
                   sawCards, sawTiers, local>>
    /\ UNCHANGED <<chunkVars, api>>

\* reload(), lines 80-88.
ReloadTiers(h) ==
    /\ pc[h] = "reload_tiers" /\ CanRun(h)
    /\ LET r == LoadTiers(tiersFile, cards)
       IN IF r.ok
          THEN /\ tiers' = r.tiers
               /\ tiersBy' = h
               /\ Step(h, IF kind[h] = "lootrate" THEN "total" ELSE "find")
               /\ reply' = reply
          ELSE /\ UNCHANGED <<tiers, tiersBy>>
               /\ Step(h, "await_error")
               /\ reply' = [reply EXCEPT ![h] = Ephemeral("Erreur donnees")]
    /\ UNCHANGED <<cardsFile, tiersFile, cards, cardsBy, kind, query, prior,
                   sawCards, sawTiers, local>>
    /\ UNCHANGED <<chunkVars, api>>

\* lootrate, lines 205-210.
LootrateTotal(h) ==
    /\ pc[h] = "total" /\ CanRun(h)
    /\ LET total == total_weight(cards)
       IN /\ local' = [local EXCEPT ![h].total = total]
          /\ IF total <= 0
             THEN /\ Step(h, "await_zero")
                  /\ reply' = [reply EXCEPT ![h] = Ephemeral("Poids total = 0")]
             ELSE /\ Step(h, "lines")
                  /\ reply' = reply
    /\ sawCards' = [sawCards EXCEPT ![h] = @ \cup {cardsBy}]
    /\ UNCHANGED <<cardsFile, tiersFile, cards, tiers, cardsBy, tiersBy, kind,
                   query, prior, sawTiers>>
    /\ UNCHANGED <<chunkVars, api>>

\* lootrate, lines 213-240.
LootrateLines(h) ==
    /\ pc[h] = "lines" /\ CanRun(h)
    /\ LET total == total_weight(cards)
           lines == [i \in 1..Len(cards) |->
                       [id |-> i, len |-> LineLen(cards[i], IF total > 0 THEN total ELSE 1)]]
           chunks == BuildChunks(lines)
       IN reply' = [reply EXCEPT ![h] =
                      [NoReply EXCEPT
                         !.type = "embed",
                         !.probs = [i \in 1..Len(cards) |-> probability(cards, cards[i])],
                         !.chunks = [i \in 1..Len(chunks) |-> JoinedLen(chunks[i])]]]
    /\ Step(h, "await_reply")
    /\ sawCards' = [sawCards EXCEPT ![h] = @ \cup {cardsBy}]
    /\ UNCHANGED <<cardsFile, tiersFile, cards, tiers, cardsBy, tiersBy, kind,
                   query, prior, sawTiers, local>>
    /\ UNCHANGED <<chunkVars, api>>

\* cardinfo, lines 260-265.
CardinfoFind(h) ==
    /\ pc[h] = "find" /\ CanRun(h)
    /\ LET i == find_card(cards, query[h])
       IN /\ local' = [local EXCEPT ![h].idx = i,
                                   ![h].card = IF i = 0 THEN NoCard ELSE cards[i]]
          /\ IF i = 0
             THEN /\ Step(h, "await_miss")
                  /\ reply' = [reply EXCEPT ![h] = Ephemeral("Aucune carte trouvee")]
             ELSE /\ Step(h, "detail")
                  /\ reply' = reply
    /\ sawCards' = [sawCards EXCEPT ![h] = @ \cup {cardsBy}]
    /\ UNCHANGED <<cardsFile, tiersFile, cards, tiers, cardsBy, tiersBy, kind,
                   query, prior, sawTiers>>
    /\ UNCHANGED <<chunkVars, api>>

\* cardinfo, lines 267-278: `card` is the object find_card returned.
CardinfoDetail(h) ==
    /\ pc[h] = "detail" /\ CanRun(h)
    /\ LET card == local[h].card
       IN reply' = [reply EXCEPT ![h] =
                      [NoReply EXCEPT
                         !.type = "embed",
                         !.card = local[h].idx,
                         !.probs = <<probability(cards, card)>>,
                         !.tier = tier_for_card(tiers, card)]]
    /\ Step(h, "await_reply")
    /\ sawCards' = [sawCards EXCEPT ![h] = @ \cup {cardsBy}]
    /\ sawTiers' = [sawTiers EXCEPT ![h] = @ \cup {tiersBy}]
    /\ UNCHANGED <<cardsFile, tiersFile, cards, tiers, cardsBy, tiersBy, kind,
                   query, prior, local>>
    /\ UNCHANGED <<chunkVars, api>>

\* `await interaction.response.send_message(...)` completes and the handler
\* returns: its frame, and the history kept of it, are dropped.
SendDone(h) ==
    /\ pc[h] \in {"await_error", "await_zero", "await_miss", "await_reply"}
    /\ CanRun(h)
    /\ Step(h, "done")
    /\ local' = [local EXCEPT ![h] = NoLocal]
    /\ reply' = [reply EXCEPT ![h] = NoReply]
    /\ prior' = [prior EXCEPT ![h] = <<<<>>, <<>>>>]
    /\ sawCards' = [sawCards EXCEPT ![h] = {}]
    /\ sawTiers' = [sawTiers EXCEPT ![h] = {}]
    /\ UNCHANGED <<cardsFile, tiersFile, cards, tiers, cardsBy, tiersBy, kind,
                   query>>
    /\ UNCHANGED <<chunkVars, api>>

\* The operator edits a data file (the files are owned and edited externally).
EditCards(cf) ==
    /\ cf # cardsFile
    /\ cardsFile' = cf
    /\ UNCHANGED <<tiersFile, cards, tiers, cardsBy, tiersBy, pc, kind, query,
                   running, prior, sawCards, sawTiers, local, reply>>
    /\ UNCHANGED <<chunkVars, api>>

EditTiers(tf) ==
    /\ tf # tiersFile
    /\ tiersFile' = tf
    /\ UNCHANGED <<cardsFile, cards, tiers, cardsBy, tiersBy, pc, kind, query,
                   running, prior, sawCards, sawTiers, local, reply>>
    /\ UNCHANGED <<chunkVars, api>>

---------------------------------------------------------------------------
(* File contents the specifications draw from. *)

CardsMissing == [st |-> "missing", doc |-> <<>>]
CardsMalformed == [st |-> "malformed", doc |-> <<>>]
CardsScalar == [st |-> "scalar", doc |-> <<>>]      \* valid JSON that cannot be iterated
CardsList(doc) == [st |-> "list", doc |-> doc]

TiersAbsent == [st |-> "absent", doc |-> <<>>]
TiersMalformed == [st |-> "malformed", doc |-> <<>>]
TiersNotList == [st |-> "notalist", doc |-> <<>>]   \* valid JSON that is not a list
TiersList(doc) == [st |-> "list", doc |-> doc]

RawCard(k, n, w) == [key |-> JStr(k), name |-> JStr(n), weight |-> w]
RawTier(n, m) == [name |-> n, min_weight |-> m]

\* Spec: two loadable card lists and an unreadable one; tiers absent, listed
\* or unreadable.
SmallCardFiles ==
    {CardsMalformed,
     CardsList(<<RawCard(<<"a">>, <<"a">>, JInt(1))>>),
     CardsList(<<RawCard(<<"a">>, <<"a">>, JInt(0))>>)}
SmallTierFiles ==
    {TiersAbsent, TiersMalformed, TiersList(<<RawTier("Rare", JInt(1))>>)}

\* SpecRepo: every weight a record can hold, every shape of the two files.
\* (A weight left out of a record loads as 0; one record that int() rejects
\* makes the whole load raise, wherever it stands in the list.)
RawWeights == {Absent, JInt(0 - 1)} \cup {JInt(w) : w \in 1..MaxWeight}
WeightCards == {RawCard(<<"k">>, <<"n">>, w) : w \in RawWeights}
WeightCardFiles ==
    {CardsMissing, CardsMalformed, CardsScalar,
     CardsList(<<RawCard(<<"k">>, <<"n">>, JInt(1)), RawCard(<<"k">>, <<"n">>, JBad)>>)}
    \cup {CardsList(d) : d \in SeqsUpTo(WeightCards, MaxCards)}
\* (A second name, that of the label for cards without a tier, shares a
\* threshold with a "Rare" tier.)
RawTiers ==
    {RawTier("Rare", m) : m \in {Absent} \cup {JInt(w) : w \in 1..MaxWeight}}
    \cup {RawTier("Inconnu", JInt(1))}
WeightTierFiles ==
    {TiersAbsent, TiersMalformed, TiersNotList,
     TiersList(<<RawTier("Rare", JInt(1)), RawTier("Rare", JBad)>>)}
    \cup {TiersList(d) : d \in SeqsUpTo(RawTiers, MaxTiers)}

\* SpecFind: keys, names and queries that differ in case and whitespace.
FindKeys == {<<>>, <<"a">>, <<"A", " ">>, <<"a", "\t", " ", "b">>}
FindNames == {<<>>, <<"a">>, <<"b">>, <<"a", " ", "b">>, <<"B", "a">>}
FindQueries ==
    {<<>>, <<" ">>, <<"a">>, <<" ", "A">>, <<"b">>, <<"A", " ", " ", "B">>, <<"a", "b">>}
FindCards ==
    {[key |-> Absent, name |-> JStr(n), weight |-> JInt(1)] : n \in FindNames}
    \cup {RawCard(k, n, JInt(1)) : k \in FindKeys \ {<<>>}, n \in FindNames}
FindCardFiles == {CardsList(d) : d \in SeqsUpTo(FindCards, MaxCards)}

---------------------------------------------------------------------------
(* Specifications of the repository and its two handlers. *)

IdleChunk ==
    /\ all_lines = <<>>
    /\ field_chunks = <<>>
    /\ fields = <<>>
    /\ cpc = "off"

IdleApi == api = [cmd |-> "off"]

HandlersInit(pending) ==
    /\ pc = [h \in Handlers |-> IF h \in pending THEN "idle" ELSE "done"]
    /\ running = 0
    /\ cardsBy = 0
    /\ tiersBy = 0
    /\ prior = [h \in Handlers |-> <<<<>>, <<>>>>]
    /\ sawCards = [h \in Handlers |-> {}]
    /\ sawTiers = [h \in Handlers |-> {}]
    /\ local = [h \in Handlers |-> NoLocal]
    /\ reply = [h \in Handlers |-> NoReply]

\* The repository was constructed (module level, line 173) from loadable
\* files; every invocation is still to be dispatched.
Init ==
    /\ cardsFile \in SmallCardFiles
    /\ tiersFile \in SmallTierFiles
    /\ LoadCards(cardsFile).ok
    /\ cards = LoadCards(cardsFile).cards
    /\ LoadTiers(tiersFile, cards).ok
    /\ tiers = LoadTiers(tiersFile, cards).tiers
    /\ kind \in [Handlers -> {"lootrate", "cardinfo"}]
    \* (invocations differ only in their kind: those of lootrate are numbered first)
    /\ \A g \in Handlers, h \in Handlers :
          (g < h /\ kind[g] = "cardinfo") => kind[h] = "cardinfo"
    /\ query = [h \in Handlers |-> <<"a">>]
    /\ HandlersInit(Handlers)
    /\ IdleChunk
    /\ IdleApi

Next ==
    \/ \E h \in Handlers :
          \/ Dispatch(h)
          \/ ReloadCards(h)
          \/ ReloadTiers(h)
          \/ LootrateTotal(h)
          \/ LootrateLines(h)
          \/ CardinfoFind(h)
          \/ CardinfoDetail(h)
          \/ SendDone(h)
    \/ \E cf \in SmallCardFiles : EditCards(cf)
    \/ \E tf \in SmallTierFiles : EditTiers(tf)

Spec == Init /\ [][Next]_vars

\* The repository was constructed from an empty card list and no tiers file;
\* the operator has since edited both files, and one lootrate invocation is
\* pending.
InitRepo ==
    /\ cardsFile \in WeightCardFiles
    /\ tiersFile \in WeightTierFiles
    /\ query = [h \in Handlers |-> <<>>]
    /\ kind = [h \in Handlers |-> "lootrate"]
    /\ cards = <<>>
    /\ tiers = <<>>
    /\ HandlersInit({1})
    /\ IdleChunk
    /\ IdleApi

NextRepo ==
    \E h \in Handlers :
       \/ Dispatch(h)
       \/ ReloadCards(h)
       \/ ReloadTiers(h)
       \/ LootrateTotal(h)
       \/ LootrateLines(h)
       \/ SendDone(h)

SpecRepo == InitRepo /\ [][NextRepo]_vars

\* As InitRepo, with one cardinfo invocation pending.
InitFind ==
    /\ cardsFile \in FindCardFiles
    /\ tiersFile = TiersAbsent
    /\ \E q \in FindQueries : query = [h \in Handlers |-> q]
    /\ kind = [h \in Handlers |-> "cardinfo"]
    /\ cards = <<>>
    /\ tiers = <<>>
    /\ HandlersInit({1})
    /\ IdleChunk
    /\ IdleApi

NextFind ==
    \E h \in Handlers :
       \/ Dispatch(h)
       \/ ReloadCards(h)
       \/ ReloadTiers(h)
       \/ CardinfoFind(h)
       \/ CardinfoDetail(h)
       \/ SendDone(h)

SpecFind == InitFind /\ [][NextFind]_vars

---------------------------------------------------------------------------
(* The chunking of the lootrate report on its own, for lines of any length  *)
(* (a card's name is as long as the cards file makes it).                   *)

\* len(line) for the lines drawn: "**" + name + "** : " + "0.000" + "%" is 13
\* characters for an empty name.
LineLens == {13, 510, 511, 1023, 1024, 1025}

LinesOf(lens) == [i \in 1..Len(lens) |-> [id |-> i, len |-> lens[i]]]

IdleRepo ==
    /\ cardsFile = CardsList(<<>>)
    /\ tiersFile = TiersAbsent
    /\ cards = <<>>
    /\ tiers = <<>>
    /\ kind = [h \in Handlers |-> "lootrate"]
    /\ query = [h \in Handlers |-> <<>>]
    /\ HandlersInit({})

\* lootrate has built all_lines (line 220) and is about to chunk them.
InitChunk ==
    /\ all_lines \in {LinesOf(lens) : lens \in SeqsUpTo(LineLens, MaxLines)}
    /\ field_chunks = <<>>
    /\ fields = <<>>
    /\ cpc = "chunk"
    /\ IdleRepo
    /\ IdleApi

\* lines 222-235
ChunkLines ==
    /\ cpc = "chunk"
    /\ field_chunks' = BuildChunks(all_lines)
    /\ cpc' = "fields"
    /\ UNCHANGED <<all_lines, fields, repoVars, api>>

\* lines 237-239: one embed field per chunk, its value the chunk's lines
\* joined by newlines.
AddFields ==
    /\ cpc = "fields"
    /\ fields' = [i \in 1..Len(field_chunks) |-> JoinedLen(field_chunks[i])]
    /\ cpc' = "send"
    /\ UNCHANGED <<all_lines, field_chunks, repoVars, api>>

NextChunk == ChunkLines \/ AddFields

SpecChunk == InitChunk /\ [][NextChunk]_vars

---------------------------------------------------------------------------
(* The handlers that call an external API: sui (CoinGecko) and verify       *)
(* (Helius).  Discord itself is outside the model: a message sent is a      *)
(* message delivered, and add_roles either succeeds or raises Forbidden.    *)

Msg(text, private, code) == [text |-> text, private |-> private, code |-> code]

SuiHttpError(status) == Msg("CoinGecko error HTTP", TRUE, status)
SuiApiError == Msg("Erreur API", TRUE, 0)
SuiEmbed == Msg("Prix crypto (CoinGecko)", FALSE, 0)

MsgServerOnly == Msg("Commande utilisable uniquement sur le serveur.", TRUE, 0)
MsgKeyMissing == Msg("HELIUS_API_KEY manquant dans .env", TRUE, 0)
MsgHeliusError == Msg("Erreur Helius", TRUE, 0)
MsgNotFound == Msg("Je n'ai pas trouve de NFT de la collection sur ce wallet", TRUE, 0)
MsgRoleMissing == Msg("ROLE_COLLECTIONNEUR_ID invalide (role introuvable).", TRUE, 0)
MsgMemberMissing == Msg("Impossible de recuperer ton profil membre sur ce serveur.", TRUE, 0)
MsgForbidden == Msg("Je n'ai pas la permission d'attribuer ce role.", TRUE, 0)
MsgVerified == Msg("Verification reussie ! Role Collectionneur attribue.", TRUE, 0)

HttpStatuses == {200, 404, 500}

\* NFT_COLLECTION_NAME as configured (line 20): a name, or blank.
CollectionNames == {<<"A", " ", "B">>, <<" ">>}

Asset(meta, group) == [shape |-> "asset", meta |-> meta, group |-> group]
BadItem == [shape |-> "bad", meta |-> <<>>, group |-> <<>>]   \* an item that is no JSON object
Items ==
    {Asset(<<"a", " ", " ", "B">>, <<>>),
     Asset(<<>>, <<"x", "A", " ", "b">>),
     Asset(<<"a", "b">>, <<"A", " ", "B">>),
     Asset(<<>>, <<>>),
     BadItem}
\* The JSON body of the Helius response: an object with its items (first
\* page), or JSON that is no object.
Bodies ==
    {[shape |-> "notdict", items |-> <<>>]}
    \cup {[shape |-> "dict", items |-> its] : its \in SeqsUpTo(Items, MaxItems)}

\* lines 368-374: metadata.collection, else the collection grouping's value.
CollectionName(it) == IF it.meta # <<>> THEN it.meta ELSE it.group

\* line 376
ItemMatches(name, it) == IsSubstring(normalize(name), normalize(CollectionName(it)))

\* lines 361-378: the scan of the items. "crash" is an AttributeError that
\* nothing catches (data or an item is no JSON object).
RECURSIVE ScanFrom(_, _, _)
ScanFrom(name, items, i) ==
    IF i > Len(items) THEN "notfound"
    ELSE IF items[i].shape = "bad" THEN "crash"
    ELSE IF ItemMatches(name, items[i]) THEN "found"
    ELSE ScanFrom(name, items, i + 1)

Scan(name, body) ==
    IF body.shape = "notdict" THEN "crash" ELSE ScanFrom(name, body.items, 1)

\* Lookups that do not test the member.
LookupsPassRoleOnly(role, member) == role

\* lines 387-399: both lookups must succeed before add_roles is called.
LookupsPass(role, member) == role /\ member

NoBody == [shape |-> "none", items |-> <<>>]
ApiStart(cmd) ==
    [cmd |-> cmd, pc |-> "start", requests |-> 0, msgs |-> <<>>, granted |-> FALSE,
     raised |-> FALSE, status |-> 0, body |-> NoBody, data |-> "none",
     guild |-> FALSE, key |-> FALSE, name |-> <<>>, scan |-> "none",
     role |-> FALSE, member |-> FALSE, forbidden |-> FALSE]

ApiSay(a, m) == [a EXCEPT !.msgs = Append(@, m), !.pc = "done"]

InitApi ==
    /\ \/ api = ApiStart("sui")
       \/ \E g \in BOOLEAN, k \in BOOLEAN, n \in CollectionNames :
             api = [ApiStart("verify") EXCEPT !.guild = g, !.key = k, !.name = n]
    /\ IdleRepo
    /\ IdleChunk

\* sui, lines 292-293: the GET, which raises or answers with a status.
SuiGet ==
    /\ api.cmd = "sui" /\ api.pc = "start"
    /\ \/ api' = ApiSay([api EXCEPT !.requests = @ + 1, !.raised = TRUE], SuiApiError)
       \/ \E st \in HttpStatuses :
             api' = [api EXCEPT !.requests = @ + 1, !.status = st, !.pc = "status"]
    /\ UNCHANGED <<repoVars, chunkVars>>

\* sui, lines 294-304: the status test, and the body read (text() or json()),
\* which may raise.
SuiBody ==
    /\ api.cmd = "sui" /\ api.pc = "status"
    /\ \/ api' = ApiSay([api EXCEPT !.raised = TRUE], SuiApiError)
       \/ /\ api.status # 200
          /\ api' = ApiSay(api, SuiHttpError(api.status))
       \/ /\ api.status = 200
          /\ \E d \in {"prices", "partial", "notdict"} :
                api' = [api EXCEPT !.data = d, !.pc = "format"]
    /\ UNCHANGED <<repoVars, chunkVars>>

\* sui, lines 306-321: data that is no JSON object makes data.get raise, and
\* nothing catches it.
SuiFormat ==
    /\ api.cmd = "sui" /\ api.pc = "format"
    /\ api' = IF api.data = "notdict"
              THEN [api EXCEPT !.pc = "crashed"]
              ELSE ApiSay(api, SuiEmbed)
    /\ UNCHANGED <<repoVars, chunkVars>>

\* verify, lines 331-351.
VerifyGuards ==
    /\ api.cmd = "verify" /\ api.pc = "start"
    /\ api' = IF ~api.guild THEN ApiSay(api, MsgServerOnly)
              ELSE IF ~api.key THEN ApiSay(api, MsgKeyMissing)
              ELSE [api EXCEPT !.pc = "post"]
    /\ UNCHANGED <<repoVars, chunkVars>>

\* verify, lines 353-359: the POST and resp.json(); the status is not read.
VerifyPost ==
    /\ api.cmd = "verify" /\ api.pc = "post"
    /\ \/ api' = ApiSay([api EXCEPT !.requests = @ + 1, !.raised = TRUE], MsgHeliusError)
       \/ \E st \in HttpStatuses, b \in Bodies :
             api' = [api EXCEPT !.requests = @ + 1, !.status = st, !.body = b,
                                !.pc = "scan"]
    /\ UNCHANGED <<repoVars, chunkVars>>

\* verify, lines 361-385.
VerifyScan ==
    /\ api.cmd = "verify" /\ api.pc = "scan"
    /\ LET r == Scan(api.name, api.body)
       IN api' = CASE r = "crash" -> [api EXCEPT !.scan = r, !.pc = "crashed"]
                   [] r = "notfound" -> ApiSay([api EXCEPT !.scan = r], MsgNotFound)
                   [] OTHER -> [api EXCEPT !.scan = r, !.pc = "lookup"]
    /\ UNCHANGED <<repoVars, chunkVars>>

\* verify, lines 387-399.
VerifyLookup ==
    /\ api.cmd = "verify" /\ api.pc = "lookup"
    /\ \E r \in BOOLEAN, m \in BOOLEAN :
          LET a == [api EXCEPT !.role = r, !.member = m]
          IN api' = IF LookupsPass(r, m) THEN [a EXCEPT !.pc = "grant"]
                    ELSE IF ~r THEN ApiSay(a, MsgRoleMissing)
                    ELSE ApiSay(a, MsgMemberMissing)
    /\ UNCHANGED <<repoVars, chunkVars>>

\* verify, lines 401-414.
VerifyGrant ==
    /\ api.cmd = "verify" /\ api.pc = "grant"
    /\ \/ api' = ApiSay([api EXCEPT !.forbidden = TRUE], MsgForbidden)
       \/ api' = ApiSay([api EXCEPT !.granted = TRUE], MsgVerified)
    /\ UNCHANGED <<repoVars, chunkVars>>

NextApi ==
    \/ SuiGet
    \/ SuiBody
    \/ SuiFormat
    \/ VerifyGuards
    \/ VerifyPost
    \/ VerifyScan
    \/ VerifyLookup
    \/ VerifyGrant

SpecApi == InitApi /\ [][NextApi]_vars

---------------------------------------------------------------------------
(* Properties. *)

AfterReload(h) == cardsBy = h /\ tiersBy = h

\* C1: a reload() that raises leaves the card list and the tier list exactly
\* as they were when it was called.
FailedReloadKeepsLists ==
    [][\A h \in Handlers :
          (pc[h] \in {"reload_cards", "reload_tiers"} /\ pc'[h] = "await_error")
          => (cards' = prior[h][1] /\ tiers' = prior[h][2])]_vars

\* C2: every repository read a handler makes between its own reload() and
\* its reply sees the lists that this reload() assigned: cards and tiers of
\* one reload, the handler's own, and no other writer's in between.
HandlerReadsOwnSnapshot ==
    \A h \in Handlers : sawCards[h] \subseteq {h} /\ sawTiers[h] \subseteq {h}

\* Two invocations in flight at once, the files edited between their reloads:
\* the first is suspended in its send while the second has reloaded other
\* cards and read both lists.
HandlerReadsOwnSnapshotWitness ==
    /\ pc[1] = "await_reply" /\ sawCards[1] = {1}
    /\ pc[2] = "await_reply" /\ kind[2] = "cardinfo"
    /\ sawCards[2] = {2} /\ sawTiers[2] = {2}
    /\ prior[2][1] # cards
    /\ prior[2][2] # tiers

\* C3: when total_weight() > 0 the numerators probability() uses for the
\* loaded cards add up to its denominator, total_weight().
ProbabilitiesSumToOne ==
    \A h \in Handlers :
       (kind[h] = "lootrate" /\ pc[h] = "await_reply")
       => /\ local[h].total > 0
          /\ \A i \in 1..Len(reply[h].probs) : reply[h].probs[i][2] = local[h].total
          /\ SumSeq([i \in 1..Len(reply[h].probs) |-> reply[h].probs[i][1]])
                = local[h].total

\* The weights tier_for_card is asked about: every weight a loaded card can
\* hold, and one beyond.
ProbeWeights == (0 - 2)..(MaxWeight + 1)

\* C4: after a successful reload, tier_for_card is monotonic in the weight
\* (a larger weight gets a threshold at least as large, and is unknown only
\* if the smaller one is), and the tier chosen has the largest threshold
\* among the tiers whose threshold is <= the weight, the first such in the
\* list.
TierForCardMonotonic ==
    AfterReload(1) =>
       /\ \A a \in ProbeWeights, b \in ProbeWeights :
             a >= b =>
                LET ia == TierIndex(tiers, a)
                    ib == TierIndex(tiers, b)
                IN /\ ia = 0 => ib = 0
                   /\ (ia # 0 /\ ib # 0) => tiers[ia].min_weight >= tiers[ib].min_weight
       /\ \A w \in ProbeWeights :
             LET i == TierIndex(tiers, w)
             IN /\ i = 0 => \A j \in 1..Len(tiers) : tiers[j].min_weight > w
                /\ i # 0 => /\ tiers[i].min_weight <= w
                            /\ \A j \in 1..Len(tiers) :
                                  tiers[j].min_weight <= w
                                  => /\ tiers[j].min_weight <= tiers[i].min_weight
                                     /\ tiers[j].min_weight = tiers[i].min_weight => i <= j

\* A reload of a tiers file listed in ascending order, after which one loaded
\* card has a tier and another has none.
TierForCardMonotonicWitness ==
    /\ AfterReload(1)
    /\ tiersFile.st = "list" /\ Len(tiersFile.doc) = 2
    /\ IntOr(tiersFile.doc[1].min_weight) < IntOr(tiersFile.doc[2].min_weight)
    /\ \E i \in 1..Len(cards), j \in 1..Len(cards) :
          /\ TierIndex(tiers, cards[i].weight) = 1
          /\ TierIndex(tiers, cards[j].weight) = 0

\* C5: summary_by_tier accounts for all the weight: the entries' sums add up
\* to total_weight(), each entry's sum and percentage are those of the cards
\* carrying its label, every card's label has exactly one entry, and no entry
\* is without a card.
SummaryAccountsForAllWeight ==
    AfterReload(1) =>
       LET s == summary_by_tier(cards, tiers)
           total == total_weight(cards)
           holders(l) == {i \in 1..Len(cards) : tier_for_card(tiers, cards[i]) = l}
       IN /\ SumSeq([k \in 1..Len(s) |-> s[k].wsum]) = total
          /\ \A i \in 1..Len(cards) :
                Cardinality({k \in 1..Len(s) :
                               s[k].tier = tier_for_card(tiers, cards[i])}) = 1
          /\ \A k \in 1..Len(s) :
                /\ holders(s[k].tier) # {}
                /\ s[k].wsum = SumSeq([i \in 1..Len(cards) |->
                                         IF i \in holders(s[k].tier) /\ cards[i].weight > 0
                                         THEN cards[i].weight ELSE 0])
                /\ IF total > 0
                   THEN s[k].pct = <<100 * s[k].wsum, total>>
                   ELSE s[k].pct = <<0, 1>>
          /\ total > 0 =>
                SumSeq([k \in 1..Len(s) |-> s[k].pct[1]]) = 100 * total

\* A reload after which the summary has an entry for a tier and one for the
\* cards without a tier, one of them with a negative weight.
SummaryAccountsForAllWeightWitness ==
    /\ AfterReload(1)
    /\ total_weight(cards) > 0
    /\ Len(summary_by_tier(cards, tiers)) = 2
    /\ \E i \in 1..Len(cards) :
          cards[i].weight < 0 /\ tier_for_card(tiers, cards[i]) = "Inconnu"

NormKey(i) == normalize(cards[i].key)
NormName(i) == normalize(cards[i].name)

\* A normalized string: lowercase, single spaces only, none at either end.
IsNormalized(q) ==
    /\ \A i \in 1..Len(q) : q[i] \notin {"A", "B", "\t"}
    /\ q # <<>> => q[1] # " " /\ q[Len(q)] # " "
    /\ \A i \in 1..(Len(q) - 1) : ~(q[i] = " " /\ q[i + 1] = " ")

\* C6: find_card returns the first card whose normalized key is the
\* normalized query; failing any, the first whose normalized name is it;
\* failing any, the first whose normalized name contains it; else nothing;
\* and nothing for a query that normalizes to the empty string.
FindCardThreeStages ==
    \A h \in Handlers :
       (kind[h] = "cardinfo" /\ pc[h] \in {"detail", "await_miss", "await_reply"}
        /\ AfterReload(h))
       => LET q == normalize(query[h])
              i == local[h].idx
              n == Len(cards)
              anyKey == \E j \in 1..n : NormKey(j) = q
              anyName == \E j \in 1..n : NormName(j) = q
              anySub == \E j \in 1..n : IsSubstring(q, NormName(j))
          IN /\ IsNormalized(q)
             /\ q = <<>> => i = 0
             /\ (q # <<>> /\ anyKey) =>
                   /\ i # 0 /\ NormKey(i) = q
                   /\ \A j \in 1..(i - 1) : NormKey(j) # q
             /\ (q # <<>> /\ ~anyKey /\ anyName) =>
                   /\ i # 0 /\ NormName(i) = q
                   /\ \A j \in 1..(i - 1) : NormName(j) # q
             /\ (q # <<>> /\ ~anyKey /\ ~anyName /\ anySub) =>
                   /\ i # 0 /\ IsSubstring(q, NormName(i))
                   /\ \A j \in 1..(i - 1) : ~IsSubstring(q, NormName(j))
             /\ (q # <<>> /\ ~anyKey /\ ~anyName /\ ~anySub) => i = 0
             /\ (pc[h] = "await_miss") <=> (i = 0)

\* A padded, upper-case variant of the second card's key is looked up while
\* the first card matches it by name: the second card is returned.
FindCardThreeStagesWitness ==
    /\ kind[1] = "cardinfo" /\ pc[1] = "detail" /\ AfterReload(1)
    /\ query[1] = <<" ", "A">>
    /\ Len(cards) = 2
    /\ cards[1].name = <<"a">> /\ cards[1].key = <<>>
    /\ cards[2].key = <<"A", " ">>
    /\ local[1].idx = 2

\* The tiers listed in the tiers file, as records.
FileTiers == [i \in 1..Len(tiersFile.doc) |-> TierFromDict(tiersFile.doc[i])]

\* C7: after a successful reload, with no usable tiers file (absent, an empty
\* list, not a list) the tier list has one tier per distinct positive weight
\* of the cards just loaded, named "Poids >= <weight>", in strictly
\* descending order; otherwise it is the file's tiers in descending order of
\* min_weight, those of equal min_weight in file order.
TiersAfterReload ==
    AfterReload(1) =>
       IF tiersFile.st \in {"absent", "notalist"} \/ tiersFile.doc = <<>>
       THEN /\ {tiers[i].min_weight : i \in 1..Len(tiers)}
                 = {cards[i].weight : i \in {j \in 1..Len(cards) : cards[j].weight > 0}}
            /\ \A i \in 1..Len(tiers) :
                  tiers[i].name = "Poids >= " \o ToString(tiers[i].min_weight)
            /\ \A i \in 1..Len(tiers), j \in 1..Len(tiers) :
                  i < j => tiers[i].min_weight > tiers[j].min_weight
       ELSE /\ Len(tiers) = Len(FileTiers)
            /\ \A i \in 1..Len(tiers), j \in 1..Len(tiers) :
                  i < j => tiers[i].min_weight >= tiers[j].min_weight
            /\ \A m \in {FileTiers[i].min_weight : i \in 1..Len(FileTiers)} :
                  SelectSeq(tiers, LAMBDA t : t.min_weight = m)
                     = SelectSeq(FileTiers, LAMBDA t : t.min_weight = m)

\* A reload of a tiers file that lists two tiers of different names with the
\* same threshold.
TiersAfterReloadWitness ==
    /\ AfterReload(1)
    /\ tiersFile.st = "list" /\ Len(tiersFile.doc) = 2
    /\ FileTiers[1].min_weight = FileTiers[2].min_weight
    /\ FileTiers[1].name # FileTiers[2].name
    /\ tiers = FileTiers

RECURSIVE Flatten(_)
Flatten(ss) == IF ss = <<>> THEN <<>> ELSE ss[1] \o Flatten(Tail(ss))

\* C9: the chunks of the lootrate report, concatenated in order, are exactly
\* the lines; no chunk is empty; and every chunk's displayed value is at most
\* 1024 characters long.
ChunksFitTheField ==
    cpc = "send" =>
       /\ Flatten(field_chunks) = all_lines
       /\ \A i \in 1..Len(field_chunks) : field_chunks[i] # <<>>
       /\ Len(fields) = Len(field_chunks)
       /\ \A i \in 1..Len(fields) : fields[i] <= 1024

ApiOver == api.pc \in {"done", "crashed"}

\* A response that is not what the handler's parsing expects: JSON that is no
\* object, or an item that is no object.
Malformed(body) ==
    \/ body.shape = "notdict"
    \/ \E i \in 1..Len(body.items) : body.items[i].shape = "bad"

\* C8: a non-success outcome of the external call never yields a success
\* result.  sui: a non-200 status or an exception gives exactly one private
\* failure message (with the status code when the failure is the status) and
\* no price embed.  verify: a non-success status, a malformed response or an
\* exception gives a private failure report and no role grant.  Either way
\* the request was made once.
ApiFailureIsReported ==
    /\ (api.cmd = "sui" /\ ApiOver /\ (api.raised \/ api.status # 200)) =>
          /\ api.requests = 1
          /\ Len(api.msgs) = 1
          /\ api.msgs[1].private
          /\ api.msgs[1] # SuiEmbed
          /\ ~api.raised => api.msgs[1].code = api.status
    /\ (api.cmd = "verify" /\ ApiOver /\ api.requests > 0
        /\ (api.raised \/ api.status # 200 \/ Malformed(api.body))) =>
          /\ api.requests = 1
          /\ ~api.granted
          /\ Len(api.msgs) = 1
          /\ api.msgs[1].private
          /\ api.msgs[1] # MsgVerified

\* Some asset of the first page carries the configured collection name.
SomeAssetMatches ==
    \E i \in 1..Len(api.body.items) :
       /\ api.body.items[i].shape = "asset"
       /\ IsSubstring(normalize(api.name), normalize(CollectionName(api.body.items[i])))

\* The message of the first check that fails, in the order of the chain; the
\* success message when none does.
VerifyOutcome ==
    IF ~api.guild THEN MsgServerOnly
    ELSE IF ~api.key THEN MsgKeyMissing
    ELSE IF api.raised THEN MsgHeliusError
    ELSE IF ~SomeAssetMatches THEN MsgNotFound
    ELSE IF ~api.role THEN MsgRoleMissing
    ELSE IF ~api.member THEN MsgMemberMissing
    ELSE IF api.forbidden THEN MsgForbidden
    ELSE MsgVerified

\* C10: verify grants the role only at the end of the chain: a grant implies
\* a server context, a configured credential, an answered query, a matching
\* asset on the first page, and the role and the member found; an invocation
\* that ends on a check sent exactly that check's private message and granted
\* nothing; and the messages of the checks are all different (a denied
\* permission does not read like a failed lookup).
VerifyGrantsAtEndOfChain ==
    api.cmd = "verify" =>
       /\ api.granted =>
             /\ api.guild /\ api.key
             /\ api.requests = 1 /\ ~api.raised
             /\ SomeAssetMatches
             /\ api.role /\ api.member /\ ~api.forbidden
             /\ api.pc = "done"
       /\ api.pc = "done" =>
             /\ api.msgs = <<VerifyOutcome>>
             /\ VerifyOutcome.private
             /\ api.granted <=> (VerifyOutcome = MsgVerified)
       /\ api.pc # "done" => (api.msgs = <<>> /\ ~api.granted)
       /\ Cardinality({MsgServerOnly, MsgKeyMissing, MsgHeliusError, MsgNotFound,
                       MsgRoleMissing, MsgMemberMissing, MsgForbidden,
                       MsgVerified}) = 8

\* A grant for a wallet whose second asset names the collection in its
\* grouping, in another case and inside a longer name.
VerifyGrantsAtEndOfChainWitness ==
    /\ api.cmd = "verify" /\ api.granted
    /\ api.name = <<"A", " ", "B">>
    /\ api.body.items = <<Asset(<<"a", "b">>, <<"A", " ", "B">>),
                          Asset(<<>>, <<"x", "A", " ", "b">>)>>

=============================================================================
